---- MODULE Spec2Model ----
(***************************************************************************)
(* Model of the container launch orchestrator Exec and its helpers         *)
(* SetupCgroups, InitializeNetworking and TeardownNetworking               *)
(* (pkg/libcontainer: namespaces/exec.go together with network/network.go).*)
(*                                                                         *)
(* Exec is a sequential program.  Every call it makes to a collaborator    *)
(* (pipe, terminal, process, bookkeeping, cgroup backend, network strategy,*)
(* netlink interface operation, namespace switch) is one action; the       *)
(* outcome of the call is chosen nondeterministically.  `pc' is the        *)
(* position of Exec, `defers' its stack of deferred calls, `trace' the     *)
(* history of the calls made so far.                                       *)
(***************************************************************************)
EXTENDS Integers, Sequences, FiniteSets, TLC

\* ---- bounds of the model --------------------------------------------------
MaxNetworks == 2          \* at most this many entries in container.Networks
MaxIfaces == 2            \* at most this many entries in container.NetworkInterfaces

\* ---- values ---------------------------------------------------------------
Pids == {7, 8}            \* pids the started child may get
ExitCodes == {0, 17}      \* exit codes of a child that exits by itself
RootPid == 1              \* pid whose namespace interfaces are given back to
ErrCode == 0 - 1          \* the int returned together with an error

VARIABLES
  container,      \* [Tty, Cgroups, Networks, NetworkInterfaces]: the specification
  startCallback,  \* TRUE iff the caller passed a non-nil startCallback
  useSystemd,     \* what systemd.UseSystemd() reports on this host
  pc,             \* position of Exec
  defers,         \* stack of deferred calls, head runs first
  trace,          \* history: sequence of calls made, in order
  pid,            \* command.Process.Pid, 0 before command.Start()
  childState,     \* "none" | "running" | "killed" | "reaped"
  pipeOpen,       \* the parent end of the sync pipe is open
  pidRecord,      \* a pid/start-time record is persisted under dataPath
  cleaner,        \* handle returned by SetupCgroups: "unset" | "nil" | "handle"
  netIdx,         \* index into container.Networks
  ifIdx,          \* index into container.NetworkInterfaces
  curNs,          \* network namespace of the supervisor: "host" | "child"
  original,       \* TeardownNetworking: /proc/self/net/ns was opened
  running,        \* TeardownNetworking: /proc/<pid>/net/ns was opened
  beFailed,       \* some logged-only (best-effort) call has failed
  failedStep,     \* first call whose error Exec has to act on, "" if none
  waitStatus,     \* [kind, code]: what the final command.Wait() observed
  ret,            \* [code, err]: the values Exec returns
  namespaces,     \* GetNamespaceFlags: its argument, name -> enabled
  order,          \* GetNamespaceFlags: the order in which range visits the map
  flag            \* GetNamespaceFlags: its result

vars == <<container, startCallback, useSystemd, pc, defers, trace, pid,
          childState, pipeOpen, pidRecord, cleaner, netIdx, ifIdx, curNs,
          original, running, beFailed, failedStep, waitStatus, ret,
          namespaces, order, flag>>

\* what the steps of Exec leave alone: its arguments, the host, and the
\* state of GetNamespaceFlags
cfgVars == <<container, startCallback, useSystemd, namespaces, order, flag>>
tdVars == <<original, running>>

\* ---- helpers --------------------------------------------------------------
\* one entry of the history: the call, the interface/network index it is
\* about (0 if none), the pid passed to it (0 if none), and the network
\* namespace the supervisor is in when it makes the call
Ev(op, arg, p) == [op |-> op, arg |-> arg, pid |-> p, ns |-> curNs]

Log(op, arg, p) == trace' = Append(trace, Ev(op, arg, p))

Idx(op) == {i \in DOMAIN trace : trace[i].op = op}
Count(op) == Cardinality(Idx(op))

NoStatus == [kind |-> "none", code |-> 0]

Init ==
  /\ container \in [Tty : BOOLEAN, Cgroups : BOOLEAN,
                    Networks : 0..MaxNetworks,
                    NetworkInterfaces : 0..MaxIfaces]
  /\ startCallback \in BOOLEAN
  /\ useSystemd \in BOOLEAN
  /\ pc = "NewSyncPipe"
  /\ defers = <<>>
  /\ trace = <<>>
  /\ pid = 0
  /\ childState = "none"
  /\ pipeOpen = FALSE
  /\ pidRecord = FALSE
  /\ cleaner = "unset"
  /\ netIdx = 1
  /\ ifIdx = 1
  /\ curNs = "host"
  /\ original = FALSE
  /\ running = FALSE
  /\ beFailed = FALSE
  /\ failedStep = ""
  /\ waitStatus = NoStatus
  /\ ret = [code |-> 0, err |-> FALSE]
  /\ namespaces = <<>>
  /\ order = <<>>
  /\ flag = 0

\* `return -1, err' after the call `step' failed: the deferred calls run next
ReturnErr(step) ==
  /\ failedStep' = (IF failedStep = "" THEN step ELSE failedStep)
  /\ ret' = [code |-> ErrCode, err |-> TRUE]
  /\ pc' = "unwind"

\* variant of KillAndReturn that returns the error at once, leaving the child
KillAndReturn_NoKill(step) ==
  /\ failedStep' = (IF failedStep = "" THEN step ELSE failedStep)
  /\ ret' = [code |-> ErrCode, err |-> TRUE]
  /\ pc' = "unwind"

\* the call `step' failed after the child was started: kill, wait, return
KillAndReturn(step) ==
  /\ failedStep' = (IF failedStep = "" THEN step ELSE failedStep)
  /\ ret' = [code |-> ErrCode, err |-> TRUE]
  /\ pc' = "Kill"

\* syncPipe, err := NewSyncPipe()
NewSyncPipe ==
  /\ pc = "NewSyncPipe"
  /\ Log("NewSyncPipe", 0, 0)
  /\ \E ok \in BOOLEAN :
       IF ok
         THEN /\ pipeOpen' = TRUE
              /\ pc' = (IF container.Tty THEN "CreateMasterAndConsole" ELSE "Attach")
              /\ UNCHANGED <<failedStep, ret>>
         ELSE /\ ReturnErr("NewSyncPipe")
              /\ UNCHANGED pipeOpen
  /\ UNCHANGED <<cfgVars, tdVars, defers, pid, childState, pidRecord, cleaner,
                 netIdx, ifIdx, curNs, beFailed, waitStatus>>

\* master, console, err = system.CreateMasterAndConsole(); term.SetMaster(master)
CreateMasterAndConsole ==
  /\ pc = "CreateMasterAndConsole"
  /\ \E ok \in BOOLEAN :
       IF ok
         THEN /\ trace' = trace \o <<Ev("CreateMasterAndConsole", 0, 0),
                                     Ev("SetMaster", 0, 0)>>
              /\ pc' = "Attach"
              /\ UNCHANGED <<failedStep, ret>>
         ELSE /\ Log("CreateMasterAndConsole", 0, 0)
              /\ ReturnErr("CreateMasterAndConsole")
  /\ UNCHANGED <<cfgVars, tdVars, defers, pid, childState, pipeOpen, pidRecord,
                 cleaner, netIdx, ifIdx, curNs, beFailed, waitStatus>>

\* command := createCommand(...); term.Attach(command); defer term.Close()
Attach ==
  /\ pc = "Attach"
  /\ Log("Attach", 0, 0)
  /\ \E ok \in BOOLEAN :
       IF ok
         THEN /\ defers' = <<"TermClose">> \o defers
              /\ pc' = "Start"
              /\ UNCHANGED <<failedStep, ret>>
         ELSE /\ ReturnErr("Attach")
              /\ UNCHANGED defers
  /\ UNCHANGED <<cfgVars, tdVars, pid, childState, pipeOpen, pidRecord,
                 cleaner, netIdx, ifIdx, curNs, beFailed, waitStatus>>

\* command.Start()
Start ==
  /\ pc = "Start"
  /\ Log("Start", 0, 0)
  /\ \E ok \in BOOLEAN :
       IF ok
         THEN /\ \E p \in Pids : pid' = p
              /\ childState' = "running"
              /\ pc' = "GetProcessStartTime"
              /\ UNCHANGED <<failedStep, ret>>
         ELSE /\ ReturnErr("Start")
              /\ UNCHANGED <<pid, childState>>
  /\ UNCHANGED <<cfgVars, tdVars, defers, pipeOpen, pidRecord, cleaner,
                 netIdx, ifIdx, curNs, beFailed, waitStatus>>

\* started, err := system.GetProcessStartTime(command.Process.Pid)
GetProcessStartTime ==
  /\ pc = "GetProcessStartTime"
  /\ Log("GetProcessStartTime", 0, pid)
  /\ \E ok \in BOOLEAN :
       IF ok
         THEN /\ pc' = "WritePid"
              /\ UNCHANGED <<failedStep, ret>>
         ELSE ReturnErr("GetProcessStartTime")
  /\ UNCHANGED <<cfgVars, tdVars, defers, pid, childState, pipeOpen, pidRecord,
                 cleaner, netIdx, ifIdx, curNs, beFailed, waitStatus>>

\* variant of WritePid that forgets `defer DeletePid(dataPath)'
WritePid_NoDefer ==
  /\ pc = "WritePid"
  /\ Log("WritePid", 0, pid)
  /\ \E ok \in BOOLEAN :
       IF ok
         THEN /\ pidRecord' = TRUE
              /\ pc' = "SetupCgroups"
              /\ UNCHANGED <<failedStep, ret, defers>>
         ELSE /\ KillAndReturn("WritePid")
              /\ UNCHANGED <<pidRecord, defers>>
  /\ UNCHANGED <<cfgVars, tdVars, pid, childState, pipeOpen, cleaner,
                 netIdx, ifIdx, curNs, beFailed, waitStatus>>

\* WritePid(dataPath, pid, started); defer DeletePid(dataPath)
WritePid ==
  /\ pc = "WritePid"
  /\ Log("WritePid", 0, pid)
  /\ \E ok \in BOOLEAN :
       IF ok
         THEN /\ pidRecord' = TRUE
              /\ defers' = <<"DeletePid">> \o defers
              /\ pc' = "SetupCgroups"
              /\ UNCHANGED <<failedStep, ret>>
         ELSE /\ KillAndReturn("WritePid")
              /\ UNCHANGED <<pidRecord, defers>>
  /\ UNCHANGED <<cfgVars, tdVars, pid, childState, pipeOpen, cleaner,
                 netIdx, ifIdx, curNs, beFailed, waitStatus>>

\* variant of Kill after which the child is not waited on
Kill_NoWait ==
  /\ pc = "Kill"
  /\ Log("Kill", 0, pid)
  /\ childState' = "killed"
  /\ pc' = "unwind"
  /\ UNCHANGED <<cfgVars, tdVars, defers, pid, pipeOpen, pidRecord, cleaner,
                 netIdx, ifIdx, curNs, beFailed, failedStep, waitStatus, ret>>

\* command.Process.Kill() on a failure path
Kill ==
  /\ pc = "Kill"
  /\ Log("Kill", 0, pid)
  /\ childState' = "killed"
  /\ pc' = "KillWait"
  /\ UNCHANGED <<cfgVars, tdVars, defers, pid, pipeOpen, pidRecord, cleaner,
                 netIdx, ifIdx, curNs, beFailed, failedStep, waitStatus, ret>>

\* command.Wait() after the kill, then `return -1, err'
KillWait ==
  /\ pc = "KillWait"
  /\ Log("Wait", 0, pid)
  /\ childState' = "reaped"
  /\ pc' = "unwind"
  /\ UNCHANGED <<cfgVars, tdVars, defers, pid, pipeOpen, pidRecord, cleaner,
                 netIdx, ifIdx, curNs, beFailed, failedStep, waitStatus, ret>>

\* variant of Backend that never asks systemd.UseSystemd()
Backend_AlwaysFs == "fs.Apply"

\* SetupCgroups: the backend whose Apply is called for a present specification
Backend == IF useSystemd THEN "systemd.Apply" ELSE "fs.Apply"

\* SetupCgroups: the calls it makes
SetupCgroupsCalls ==
  IF container.Cgroups THEN <<Ev(Backend, 0, pid)>> ELSE <<>>

\* SetupCgroups: the (handle, ok) pairs it can return; a backend's Apply may
\* return any combination of handle and error
SetupCgroupsResults ==
  IF container.Cgroups
    THEN {"nil", "handle"} \X BOOLEAN
    ELSE {<<"nil", TRUE>>}

\* variant of NetLoopPc: with nothing to set up, InitializeNetworking returns
\* without sending the (empty) payload
NetLoopPc_NoPayload(i) ==
  IF i <= container.Networks THEN "GetStrategy"
  ELSE IF container.Networks = 0 /\ container.NetworkInterfaces = 0 THEN "Close"
  ELSE IF 1 <= container.NetworkInterfaces THEN "InitDown" ELSE "SendToChild"

\* position after cgroups, and after each network entry / interface binding
IfLoopPc(j) == IF j <= container.NetworkInterfaces THEN "InitDown" ELSE "SendToChild"
NetLoopPc(i) == IF i <= container.Networks THEN "GetStrategy" ELSE IfLoopPc(1)

\* variant of ExecSetupCgroups that goes on to networking although
\* SetupCgroups reported an error
ExecSetupCgroups_IgnoreErr ==
  /\ pc = "SetupCgroups"
  /\ trace' = trace \o <<Ev("SetupCgroups", 0, pid)>> \o SetupCgroupsCalls
  /\ \E r \in SetupCgroupsResults :
       /\ cleaner' = r[1]
       /\ defers' = (IF r[1] = "handle" THEN <<"Cleanup">> \o defers ELSE defers)
       /\ pc' = NetLoopPc(1)
       /\ failedStep' = (IF r[2] THEN failedStep ELSE "SetupCgroups")
       /\ UNCHANGED ret
  /\ UNCHANGED <<cfgVars, tdVars, pid, childState, pipeOpen, pidRecord,
                 netIdx, ifIdx, curNs, beFailed, waitStatus>>

\* cleaner, err := SetupCgroups(container, pid); if cleaner != nil { defer cleaner.Cleanup() }
ExecSetupCgroups ==
  /\ pc = "SetupCgroups"
  /\ trace' = trace \o <<Ev("SetupCgroups", 0, pid)>> \o SetupCgroupsCalls
  /\ \E r \in SetupCgroupsResults :
       /\ cleaner' = r[1]
       /\ IF r[2]
            THEN /\ defers' = (IF r[1] = "handle" THEN <<"Cleanup">> \o defers ELSE defers)
                 /\ pc' = NetLoopPc(1)
                 /\ UNCHANGED <<failedStep, ret>>
            ELSE /\ KillAndReturn("SetupCgroups")
                 /\ UNCHANGED defers
  /\ UNCHANGED <<cfgVars, tdVars, pid, childState, pipeOpen, pidRecord,
                 netIdx, ifIdx, curNs, beFailed, waitStatus>>

\* variant of GetStrategy that skips an entry whose lookup fails
GetStrategy_SkipUnknown ==
  /\ pc = "GetStrategy"
  /\ Log("GetStrategy", netIdx, 0)
  /\ \E ok \in BOOLEAN :
       IF ok
         THEN /\ pc' = "Create"
              /\ UNCHANGED <<failedStep, netIdx>>
         ELSE /\ failedStep' = "GetStrategy"
              /\ netIdx' = netIdx + 1
              /\ pc' = (IF netIdx + 1 <= container.Networks THEN "GetStrategy"
                        ELSE IF 1 <= container.NetworkInterfaces THEN "InitDown"
                        ELSE "SendToChild")
  /\ UNCHANGED <<cfgVars, tdVars, defers, pid, childState, pipeOpen, pidRecord,
                 cleaner, ifIdx, curNs, beFailed, waitStatus, ret>>

\* InitializeNetworking: strategy, err := network.GetStrategy(config.Type)
GetStrategy ==
  /\ pc = "GetStrategy"
  /\ Log("GetStrategy", netIdx, 0)
  /\ \E ok \in BOOLEAN :
       IF ok
         THEN /\ pc' = "Create"
              /\ UNCHANGED <<failedStep, ret>>
         ELSE KillAndReturn("GetStrategy")
  /\ UNCHANGED <<cfgVars, tdVars, defers, pid, childState, pipeOpen, pidRecord,
                 cleaner, netIdx, ifIdx, curNs, beFailed, waitStatus>>

\* variant of Create whose error is dropped: the loop goes on
Create_IgnoreErr ==
  /\ pc = "Create"
  /\ Log("Create", netIdx, pid)
  /\ \E ok \in BOOLEAN :
       failedStep' = (IF ok THEN failedStep ELSE "Create")
  /\ netIdx' = netIdx + 1
  /\ pc' = NetLoopPc(netIdx + 1)
  /\ UNCHANGED <<cfgVars, tdVars, defers, pid, childState, pipeOpen, pidRecord,
                 cleaner, ifIdx, curNs, beFailed, waitStatus, ret>>

\* InitializeNetworking: strategy.Create(config, nspid, context)
Create ==
  /\ pc = "Create"
  /\ Log("Create", netIdx, pid)
  /\ \E ok \in BOOLEAN :
       IF ok
         THEN /\ netIdx' = netIdx + 1
              /\ pc' = NetLoopPc(netIdx + 1)
              /\ UNCHANGED <<failedStep, ret>>
         ELSE /\ KillAndReturn("Create")
              /\ UNCHANGED netIdx
  /\ UNCHANGED <<cfgVars, tdVars, defers, pid, childState, pipeOpen, pidRecord,
                 cleaner, ifIdx, curNs, beFailed, waitStatus>>

\* variant of BestEffort in which a failed interface operation is treated as
\* a fatal error: the loop stops and the launch is aborted
BestEffort_StopOnError(op, p, nextPc, nextIf) ==
  /\ Log(op, ifIdx, p)
  /\ \E ok \in BOOLEAN :
       /\ beFailed' = (beFailed \/ ~ok)
       /\ pc' = (IF ok THEN nextPc ELSE "unwind")
       /\ ifIdx' = (IF ok THEN nextIf ELSE ifIdx)
  /\ UNCHANGED <<cfgVars, tdVars, defers, pid, childState, pipeOpen, pidRecord,
                 cleaner, netIdx, curNs, failedStep, waitStatus, ret>>

\* a logged-only interface operation: its error is printed and dropped
BestEffort(op, p, nextPc, nextIf) ==
  /\ Log(op, ifIdx, p)
  /\ \E ok \in BOOLEAN : beFailed' = (beFailed \/ ~ok)
  /\ pc' = nextPc
  /\ ifIdx' = nextIf
  /\ UNCHANGED <<cfgVars, tdVars, defers, pid, childState, pipeOpen, pidRecord,
                 cleaner, netIdx, curNs, failedStep, waitStatus, ret>>

\* InitializeNetworking: network.InterfaceDown(net_iface.HostIfaceName)
InitDown ==
  /\ pc = "InitDown"
  /\ BestEffort("InterfaceDown", 0, "InitSetNs", ifIdx)

\* InitializeNetworking: network.SetInterfaceInNamespacePid(name, nspid)
InitSetNs ==
  /\ pc = "InitSetNs"
  /\ BestEffort("SetInterfaceInNamespacePid", pid, "InitUp", ifIdx)

\* InitializeNetworking: network.InterfaceUp(net_iface.HostIfaceName)
InitUp ==
  /\ pc = "InitUp"
  /\ BestEffort("InterfaceUp", 0, IfLoopPc(ifIdx + 1), ifIdx + 1)

\* variant of SendToChild in which the teardown of the network is registered
\* so that it runs after the other deferred calls
SendToChild_TeardownLast ==
  /\ pc = "SendToChild"
  /\ Log("SendToChild", 0, 0)
  /\ \E ok \in BOOLEAN :
       IF ok
         THEN /\ defers' = Append(defers, "TeardownNetworking")
              /\ pc' = "Close"
              /\ UNCHANGED <<failedStep, ret>>
         ELSE /\ KillAndReturn("SendToChild")
              /\ UNCHANGED defers
  /\ UNCHANGED <<cfgVars, tdVars, pid, childState, pipeOpen, pidRecord,
                 cleaner, netIdx, ifIdx, curNs, beFailed, waitStatus>>

\* InitializeNetworking: return pipe.SendToChild(context);
\* on success Exec does defer TeardownNetworking(...)
SendToChild ==
  /\ pc = "SendToChild"
  /\ Log("SendToChild", 0, 0)
  /\ \E ok \in BOOLEAN :
       IF ok
         THEN /\ defers' = <<"TeardownNetworking">> \o defers
              /\ pc' = "Close"
              /\ UNCHANGED <<failedStep, ret>>
         ELSE /\ KillAndReturn("SendToChild")
              /\ UNCHANGED defers
  /\ UNCHANGED <<cfgVars, tdVars, pid, childState, pipeOpen, pidRecord,
                 cleaner, netIdx, ifIdx, curNs, beFailed, waitStatus>>

\* variant of Close after which the callback is not invoked
Close_NoCallback ==
  /\ pc = "Close"
  /\ Log("Close", 0, 0)
  /\ pipeOpen' = FALSE
  /\ pc' = "Wait"
  /\ UNCHANGED <<cfgVars, tdVars, defers, pid, childState, pidRecord, cleaner,
                 netIdx, ifIdx, curNs, beFailed, failedStep, waitStatus, ret>>

\* syncPipe.Close(): the release signal
Close ==
  /\ pc = "Close"
  /\ Log("Close", 0, 0)
  /\ pipeOpen' = FALSE
  /\ pc' = (IF startCallback THEN "startCallback" ELSE "Wait")
  /\ UNCHANGED <<cfgVars, tdVars, defers, pid, childState, pidRecord, cleaner,
                 netIdx, ifIdx, curNs, beFailed, failedStep, waitStatus, ret>>

\* if startCallback != nil { startCallback() }
StartCallback ==
  /\ pc = "startCallback"
  /\ Log("startCallback", 0, 0)
  /\ pc' = "Wait"
  /\ UNCHANGED <<cfgVars, tdVars, defers, pid, childState, pipeOpen, pidRecord,
                 cleaner, netIdx, ifIdx, curNs, beFailed, failedStep,
                 waitStatus, ret>>

\* what command.Wait() can observe: the child exited with a code, was
\* terminated by a signal, or its status could not be retrieved
WaitStatuses ==
  [kind : {"exited"}, code : ExitCodes] \cup
  {[kind |-> "signaled", code |-> 0], [kind |-> "error", code |-> 0]}

\* the error command.Wait() returns for a status
WaitErr(ws) ==
  IF ws.kind = "error" THEN "error"
  ELSE IF ws.kind = "exited" /\ ws.code = 0 THEN "nil"
  ELSE "ExitError"

\* variant of IsExitError: every error of Wait is taken as a failure
IsExitError_Never(e) == FALSE

\* _, ok := err.(*exec.ExitError)
IsExitError(e) == e = "ExitError"

\* command.ProcessState.Sys().(syscall.WaitStatus).ExitStatus():
\* the exit code of a process that exited, -1 otherwise
ExitStatus(ws) == IF ws.kind = "exited" THEN ws.code ELSE 0 - 1

\* the final command.Wait() and the return that follows it
Wait ==
  /\ pc = "Wait"
  /\ Log("Wait", 0, pid)
  /\ \E ws \in WaitStatuses :
       /\ waitStatus' = ws
       /\ IF WaitErr(ws) # "nil" /\ ~IsExitError(WaitErr(ws))
            THEN /\ ReturnErr("Wait")
                 /\ UNCHANGED childState
            ELSE /\ ret' = [code |-> ExitStatus(ws), err |-> FALSE]
                 /\ childState' = "reaped"
                 /\ pc' = "unwind"
                 /\ UNCHANGED failedStep
  /\ UNCHANGED <<cfgVars, tdVars, defers, pid, pipeOpen, pidRecord, cleaner,
                 netIdx, ifIdx, curNs, beFailed>>

\* position inside the loop of TeardownNetworking
TdLoopPc(j) == IF j <= container.NetworkInterfaces THEN "TdDown" ELSE "TdRestore"

\* deferred TeardownNetworking(container, pid, syncPipe) starts
DeferTeardownNetworking ==
  /\ pc = "unwind"
  /\ defers # <<>>
  /\ Head(defers) = "TeardownNetworking"
  /\ defers' = Tail(defers)
  /\ Log("TeardownNetworking", 0, pid)
  /\ ifIdx' = 1
  /\ pc' = "TdOpenSelf"
  /\ UNCHANGED <<cfgVars, tdVars, pid, childState, pipeOpen, pidRecord, cleaner,
                 netIdx, curNs, beFailed, failedStep, waitStatus, ret>>

\* TeardownNetworking: original, err := os.OpenFile("/proc/self/net/ns", ...)
TdOpenSelf ==
  /\ pc = "TdOpenSelf"
  /\ Log("OpenSelfNs", 0, 0)
  /\ \E ok \in BOOLEAN :
       /\ original' = ok
       /\ beFailed' = (beFailed \/ ~ok)
  /\ pc' = "TdOpenPid"
  /\ UNCHANGED <<cfgVars, running, defers, pid, childState, pipeOpen, pidRecord,
                 cleaner, netIdx, ifIdx, curNs, failedStep, waitStatus, ret>>

\* TeardownNetworking: running, err := os.OpenFile("/proc/<nspid>/net/ns", ...)
TdOpenPid ==
  /\ pc = "TdOpenPid"
  /\ Log("OpenPidNs", 0, pid)
  /\ \E ok \in BOOLEAN :
       /\ running' = ok
       /\ beFailed' = (beFailed \/ ~ok)
  /\ pc' = "TdSetns"
  /\ UNCHANGED <<cfgVars, original, defers, pid, childState, pipeOpen, pidRecord,
                 cleaner, netIdx, ifIdx, curNs, failedStep, waitStatus, ret>>

\* TeardownNetworking: system.Setns(running.Fd(), 0); with no open file the
\* descriptor is invalid and the switch fails
TdSetns ==
  /\ pc = "TdSetns"
  /\ Log("SetnsRunning", 0, pid)
  /\ \E ok \in BOOLEAN :
       LET switched == running /\ ok IN
         /\ curNs' = (IF switched THEN "child" ELSE curNs)
         /\ beFailed' = (beFailed \/ ~switched)
  /\ pc' = TdLoopPc(1)
  /\ UNCHANGED <<cfgVars, tdVars, defers, pid, childState, pipeOpen, pidRecord,
                 cleaner, netIdx, ifIdx, failedStep, waitStatus, ret>>

\* TeardownNetworking: network.InterfaceDown(net_iface.HostIfaceName)
TdDown ==
  /\ pc = "TdDown"
  /\ BestEffort("InterfaceDown", 0, "TdSetNs", ifIdx)

\* TeardownNetworking: network.SetInterfaceInNamespacePid(name, 1)
TdSetNs ==
  /\ pc = "TdSetNs"
  /\ BestEffort("SetInterfaceInNamespacePid", RootPid, "TdUp", ifIdx)

\* TeardownNetworking: network.InterfaceUp(net_iface.HostIfaceName)
TdUp ==
  /\ pc = "TdUp"
  /\ BestEffort("InterfaceUp", 0, TdLoopPc(ifIdx + 1), ifIdx + 1)

\* TeardownNetworking returns: the deferred system.Setns(original.Fd(), 0)
\* runs if and only if the supervisor's own namespace file was opened
TdRestore ==
  /\ pc = "TdRestore"
  /\ IF original
       THEN /\ Log("SetnsOriginal", 0, 0)
            /\ \E ok \in BOOLEAN :
                 /\ curNs' = (IF ok THEN "host" ELSE curNs)
                 /\ beFailed' = (beFailed \/ ~ok)
       ELSE UNCHANGED <<trace, curNs, beFailed>>
  /\ pc' = "unwind"
  /\ UNCHANGED <<cfgVars, tdVars, defers, pid, childState, pipeOpen, pidRecord,
                 cleaner, netIdx, ifIdx, failedStep, waitStatus, ret>>

\* deferred cleaner.Cleanup()
DeferCleanup ==
  /\ pc = "unwind"
  /\ defers # <<>>
  /\ Head(defers) = "Cleanup"
  /\ defers' = Tail(defers)
  /\ Log("Cleanup", 0, 0)
  /\ UNCHANGED <<cfgVars, tdVars, pc, pid, childState, pipeOpen, pidRecord,
                 cleaner, netIdx, ifIdx, curNs, beFailed, failedStep,
                 waitStatus, ret>>

\* deferred DeletePid(dataPath)
DeferDeletePid ==
  /\ pc = "unwind"
  /\ defers # <<>>
  /\ Head(defers) = "DeletePid"
  /\ defers' = Tail(defers)
  /\ Log("DeletePid", 0, 0)
  /\ pidRecord' = FALSE
  /\ UNCHANGED <<cfgVars, tdVars, pc, pid, childState, pipeOpen, cleaner,
                 netIdx, ifIdx, curNs, beFailed, failedStep, waitStatus, ret>>

\* deferred term.Close()
DeferTermClose ==
  /\ pc = "unwind"
  /\ defers # <<>>
  /\ Head(defers) = "TermClose"
  /\ defers' = Tail(defers)
  /\ Log("TermClose", 0, 0)
  /\ UNCHANGED <<cfgVars, tdVars, pc, pid, childState, pipeOpen, pidRecord,
                 cleaner, netIdx, ifIdx, curNs, beFailed, failedStep,
                 waitStatus, ret>>

\* all deferred calls have run: Exec hands (ret.code, ret.err) to its caller
Return ==
  /\ pc = "unwind"
  /\ defers = <<>>
  /\ pc' = "done"
  /\ UNCHANGED <<cfgVars, tdVars, defers, trace, pid, childState, pipeOpen,
                 pidRecord, cleaner, netIdx, ifIdx, curNs, beFailed, failedStep,
                 waitStatus, ret>>

Next ==
  \/ NewSyncPipe
  \/ CreateMasterAndConsole
  \/ Attach
  \/ Start
  \/ GetProcessStartTime
  \/ WritePid
  \/ Kill
  \/ KillWait
  \/ ExecSetupCgroups
  \/ GetStrategy
  \/ Create
  \/ InitDown
  \/ InitSetNs
  \/ InitUp
  \/ SendToChild
  \/ Close
  \/ StartCallback
  \/ Wait
  \/ DeferTeardownNetworking
  \/ TdOpenSelf
  \/ TdOpenPid
  \/ TdSetns
  \/ TdDown
  \/ TdSetNs
  \/ TdUp
  \/ TdRestore
  \/ DeferCleanup
  \/ DeferDeletePid
  \/ DeferTermClose
  \/ Return


Spec == Init /\ [][Next]_vars
\* ---- properties -----------------------------------------------------------
IfaceOps == {"InterfaceDown", "SetInterfaceInNamespacePid", "InterfaceUp"}
IdxIn(ops) == {i \in DOMAIN trace : trace[i].op \in ops}

\* the call `op' was made and did not report an error Exec acts on
Succeeded(op) == Count(op) >= 1 /\ failedStep # op

\* the calls of InitializeNetworking come before the deferred teardown starts
InitOp(k) == \A t \in Idx("TeardownNetworking") : k < t
TdOp(k) == \E t \in Idx("TeardownNetworking") : t < k

\* the setup steps that can fail while a started child is alive
AfterStartSteps == {"GetProcessStartTime", "WritePid", "SetupCgroups",
                    "GetStrategy", "Create", "SendToChild"}

\* C1: when a setup step after command.Start() fails, the child is killed
\* and waited on exactly once before Exec returns its error.
C1_ChildKilledAndReaped ==
  (pc = "done" /\ failedStep \in AfterStartSteps) =>
     /\ ret.err
     /\ Count("Kill") = 1
     /\ Count("Wait") = 1
     /\ childState = "reaped"

\* C2: once WritePid has succeeded, DeletePid runs exactly once before Exec
\* returns, on every exit path, and no persisted record remains.
C2_RecordRemoved ==
  /\ Count("DeletePid") <= 1
  /\ (Count("DeletePid") = 1 => Succeeded("WritePid"))
  /\ (pc = "done" /\ Succeeded("WritePid")) =>
        (Count("DeletePid") = 1 /\ ~pidRecord)

C2_Witness ==
  /\ pc = "done"
  /\ Succeeded("WritePid")
  /\ failedStep = "SendToChild"
  /\ Count("DeletePid") = 1

\* C3: a non-nil handle returned by SetupCgroups, with or without an error,
\* has its Cleanup invoked before Exec returns.
C3_HandleCleaned ==
  (pc = "done" /\ cleaner = "handle") => Count("Cleanup") >= 1

\* C4: after NewSyncPipe succeeded the supervisor closes its end of the pipe
\* exactly once before Exec returns, on every exit path.
C4_PipeClosedOnce ==
  /\ Count("Close") <= 1
  /\ (pc = "done" /\ Succeeded("NewSyncPipe")) =>
        (Count("Close") = 1 /\ ~pipeOpen)

\* C5: no release signal (SendToChild, Close) is emitted before SetupCgroups
\* returned success, every network's Create returned success and every
\* interface binding's down/reassign/up were attempted.
C5_NoReleaseBeforeSetup ==
  \A k \in IdxIn({"SendToChild", "Close"}) :
    /\ \E j \in Idx("SetupCgroups") : j < k
    /\ failedStep \notin {"SetupCgroups", "GetStrategy", "Create"}
    /\ \A n \in 1..container.Networks :
         \E j \in Idx("Create") : j < k /\ trace[j].arg = n
    /\ \A i \in 1..container.NetworkInterfaces :
         /\ \E j \in Idx("InterfaceDown") : j < k /\ trace[j].arg = i
         /\ \E j \in Idx("SetInterfaceInNamespacePid") :
              j < k /\ trace[j].arg = i /\ trace[j].pid = pid
         /\ \E j \in Idx("InterfaceUp") : j < k /\ trace[j].arg = i

C5_Witness ==
  /\ Count("Close") = 1
  /\ container.Cgroups
  /\ container.Networks >= 1
  /\ container.NetworkInterfaces >= 1
  /\ beFailed

\* C6: no strategy Create and no interface operation happens before
\* SetupCgroups was invoked for the child's pid and returned without error.
C6_CgroupsBeforeNetworking ==
  \A k \in IdxIn(IfaceOps \cup {"Create"}) :
    /\ pid # 0
    /\ \E j \in Idx("SetupCgroups") : j < k /\ trace[j].pid = pid
    /\ container.Cgroups => \E j \in IdxIn({"systemd.Apply", "fs.Apply"}) :
                               j < k /\ trace[j].pid = pid
    /\ failedStep # "SetupCgroups"

C6_Witness ==
  /\ container.Cgroups
  /\ Count("Create") >= 1
  /\ Count("SetInterfaceInNamespacePid") >= 1

\* the top-level teardown calls made so far, in order
TeardownOps == {"TeardownNetworking", "Cleanup", "DeletePid", "TermClose"}
TeardownsDone ==
  LET sel == SelectSeq(trace, LAMBDA e : e.op \in TeardownOps)
  IN  [i \in 1..Len(sel) |-> sel[i].op]

\* C7: after a normally observed exit the teardown is TeardownNetworking,
\* Cleanup (if the handle is non-nil), DeletePid, term.Close, in this order,
\* whatever the exit code, and Exec returns the exit code.
C7_TeardownOrder ==
  (pc = "done" /\ waitStatus.kind = "exited") =>
     /\ TeardownsDone =
          <<"TeardownNetworking">> \o
          (IF cleaner = "handle" THEN <<"Cleanup">> ELSE <<>>) \o
          <<"DeletePid", "TermClose">>
     /\ \A t \in IdxIn(TeardownOps) : \A w \in Idx("Wait") : w < t
     /\ Count("Kill") = 0
     /\ ret = [code |-> waitStatus.code, err |-> FALSE]

C7_Witness ==
  /\ pc = "done"
  /\ waitStatus = [kind |-> "exited", code |-> 17]
  /\ cleaner = "handle"
  /\ container.NetworkInterfaces >= 1

\* the calls whose failure makes Exec return an error
FatalSteps == {"NewSyncPipe", "CreateMasterAndConsole", "Attach", "Start"}
              \cup AfterStartSteps

\* C8 (as stated): Exec returns (child exit code, nil) or (-1, error), an
\* error exactly when a setup-fatal step failed or the exit status could not
\* be observed; without an error the code is the exit code of a child that
\* exited.
C8_ExitCodeOrError ==
  pc = "done" =>
     /\ ret.err <=> failedStep \in FatalSteps \cup {"Wait"}
     /\ ret.err => ret.code = ErrCode
     /\ ~ret.err => (waitStatus.kind = "exited" /\ ret.code = waitStatus.code)

\* C8 (amended): as above, except that without an error the code is the
\* child's exit code if it exited and -1 if a signal terminated it;
\* best-effort failures (beFailed) have no influence on the result.
C8_Result ==
  pc = "done" =>
     /\ ret.err <=> failedStep \in FatalSteps \cup {"Wait"}
     /\ failedStep \in FatalSteps \cup {"Wait", ""}
     /\ failedStep = "Wait" <=> waitStatus.kind = "error"
     /\ ret.err => ret.code = ErrCode
     /\ waitStatus.kind = "exited" =>
          ret = [code |-> waitStatus.code, err |-> FALSE]
     /\ waitStatus.kind = "signaled" =>
          ret = [code |-> ErrCode, err |-> FALSE]
     /\ ~ret.err => waitStatus.kind \in {"exited", "signaled"}

C8_Witness ==
  /\ pc = "done"
  /\ beFailed
  /\ curNs = "child"
  /\ ret = [code |-> 17, err |-> FALSE]

\* C9: a non-nil startCallback is invoked exactly once on every launch that
\* reaches the release point, after the pipe Close and before the wait on
\* the child; it is never invoked on a launch that fails before release.
C9_CallbackOnceAfterRelease ==
  /\ Count("startCallback") <= 1
  /\ ~startCallback => Count("startCallback") = 0
  /\ \A c \in Idx("startCallback") :
       /\ \E k \in Idx("Close") : k < c
       /\ \A w \in Idx("Wait") : c < w
  /\ (startCallback /\ Count("Close") = 1 /\ pc # "startCallback") =>
        Count("startCallback") = 1
  /\ Count("Close") = 0 => Count("startCallback") = 0

C9_Witness ==
  /\ pc = "done"
  /\ Count("startCallback") = 1
  /\ Count("Wait") = 1

\* C10: every interface InitializeNetworking tried to relocate has the
\* restore sequence of TeardownNetworking attempted before Exec returns.
C10_RestoreAttempted ==
  pc = "done" =>
    \A i \in 1..container.NetworkInterfaces :
      (\E j \in Idx("SetInterfaceInNamespacePid") :
          InitOp(j) /\ trace[j].arg = i /\ trace[j].pid = pid)
      =>
      /\ \E j \in Idx("InterfaceDown") : TdOp(j) /\ trace[j].arg = i
      /\ \E j \in Idx("SetInterfaceInNamespacePid") :
           TdOp(j) /\ trace[j].arg = i /\ trace[j].pid = RootPid
      /\ \E j \in Idx("InterfaceUp") : TdOp(j) /\ trace[j].arg = i

\* the interface operations made by InitializeNetworking / TeardownNetworking
\* so far, in order, each as <<op, interface, pid passed>>
IfOpsOf(phase(_)) ==
  LET idx == {k \in IdxIn(IfaceOps) : phase(k)}
      sel == SelectSeq([k \in DOMAIN trace |-> <<k, trace[k]>>],
                       LAMBDA x : x[1] \in idx)
  IN  [k \in 1..Len(sel) |-> <<sel[k][2].op, sel[k][2].arg, sel[k][2].pid>>]

\* down, reassign to p, up for interface 1, then for interface 2, ...
ExpectedIfOps(n, p) ==
  [k \in 1..(3 * n) |->
     LET i == ((k - 1) \div 3) + 1
         step == (k - 1) % 3
     IN  IF step = 0 THEN <<"InterfaceDown", i, 0>>
         ELSE IF step = 1 THEN <<"SetInterfaceInNamespacePid", i, p>>
         ELSE <<"InterfaceUp", i, 0>>]

IsPrefix(a, b) == Len(a) <= Len(b) /\ \A k \in 1..Len(a) : a[k] = b[k]

\* C11: in the relocation loop and in the teardown loop every binding gets
\* down, reassignment (to the child's pid, resp. to pid 1), up, in this
\* order, whatever failed before; no such failure stops the loop or aborts
\* the launch.
C11_AllStepsAttempted ==
  LET n == container.NetworkInterfaces
      initOps == IfOpsOf(InitOp)
      tdOps == IfOpsOf(TdOp)
  IN  /\ IsPrefix(initOps, ExpectedIfOps(n, pid))
      /\ IsPrefix(tdOps, ExpectedIfOps(n, RootPid))
      /\ Count("SendToChild") >= 1 => initOps = ExpectedIfOps(n, pid)
      /\ (pc \in {"unwind", "done"} /\ Count("TeardownNetworking") = 1)
            => tdOps = ExpectedIfOps(n, RootPid)
      /\ failedStep \notin IfaceOps
      /\ (pc = "Close" => ~ret.err)

C11_Witness ==
  /\ pc = "Close"
  /\ beFailed
  /\ container.NetworkInterfaces >= 2
  /\ IfOpsOf(InitOp) = ExpectedIfOps(container.NetworkInterfaces, pid)

\* ---- GetNamespaceFlags ----------------------------------------------------
\* namespace names a container may list; "bogus" is not registered
Names == {"NEWNS", "NEWPID", "NEWNET", "bogus"}

Nil == 0 - 1

\* libcontainer.GetNamespace(key): the registered flag value (the clone flag
\* of the namespace), Nil for a name that is not registered
GetNamespace(key) ==
  CASE key = "NEWNS" -> 131072
    [] key = "NEWPID" -> 536870912
    [] key = "NEWNET" -> 1073741824
    [] OTHER -> Nil

\* a | b on non-negative ints
RECURSIVE BitOr(_, _)
BitOr(a, b) ==
  IF a = 0 THEN b
  ELSE IF b = 0 THEN a
  ELSE (IF a % 2 = 1 \/ b % 2 = 1 THEN 1 ELSE 0) + 2 * BitOr(a \div 2, b \div 2)

\* variant of FlagStep that assigns instead of or-ing
FlagStep_Assign(f, key, enabled) ==
  IF enabled
    THEN IF GetNamespace(key) # Nil THEN GetNamespace(key) ELSE f
    ELSE f

\* the body of the loop: if enabled { if ns := GetNamespace(key); ns != nil { flag |= ns.Value } }
FlagStep(f, key, enabled) ==
  IF enabled
    THEN IF GetNamespace(key) # Nil THEN BitOr(f, GetNamespace(key)) ELSE f
    ELSE f

\* for key, enabled := range namespaces { ... }, visiting the keys in the
\* order `ord', starting from flag f
RECURSIVE RangeFlags(_, _, _)
RangeFlags(m, ord, f) ==
  IF ord = <<>> THEN f
  ELSE RangeFlags(m, Tail(ord), FlagStep(f, Head(ord), m[Head(ord)]))

GetNamespaceFlags(m, ord) == RangeFlags(m, ord, 0)

\* the orders in which range may visit the keys of a map
Orders(D) ==
  {o \in [1..Cardinality(D) -> D] : \A i, j \in DOMAIN o : i # j => o[i] # o[j]}

\* the maps GetNamespaceFlags is applied to
NamespaceMaps == UNION {[D -> BOOLEAN] : D \in SUBSET Names}

FlagsInit ==
  /\ namespaces \in NamespaceMaps
  /\ order = <<>>
  /\ flag = 0
  /\ pc = "GetNamespaceFlags"
  /\ container = [Tty |-> FALSE, Cgroups |-> FALSE, Networks |-> 0,
                  NetworkInterfaces |-> 0]
  /\ startCallback = FALSE
  /\ useSystemd = FALSE
  /\ defers = <<>>
  /\ trace = <<>>
  /\ pid = 0
  /\ childState = "none"
  /\ pipeOpen = FALSE
  /\ pidRecord = FALSE
  /\ cleaner = "unset"
  /\ netIdx = 1
  /\ ifIdx = 1
  /\ curNs = "host"
  /\ original = FALSE
  /\ running = FALSE
  /\ beFailed = FALSE
  /\ failedStep = ""
  /\ waitStatus = NoStatus
  /\ ret = [code |-> 0, err |-> FALSE]

\* a call of GetNamespaceFlags(namespaces); range picks the order
CallGetNamespaceFlags ==
  /\ pc = "GetNamespaceFlags"
  /\ \E o \in Orders(DOMAIN namespaces) :
       /\ order' = o
       /\ flag' = GetNamespaceFlags(namespaces, o)
  /\ pc' = "GetNamespaceFlagsDone"
  /\ UNCHANGED <<container, startCallback, useSystemd, namespaces, defers,
                 trace, pid, childState, pipeOpen, pidRecord, cleaner, netIdx,
                 ifIdx, curNs, original, running, beFailed, failedStep,
                 waitStatus, ret>>

FlagsNext == CallGetNamespaceFlags

FlagsSpec == FlagsInit /\ [][FlagsNext]_vars

\* bit p of the non-negative int v
Bit(v, p) == (v \div (2 ^ p)) % 2

\* the names of a map that are enabled and registered
Contributing(m) == {k \in DOMAIN m : m[k] /\ GetNamespace(k) # Nil}

RECURSIVE SumBits(_, _)
SumBits(m, p) ==
  IF p < 0 THEN 0
  ELSE (IF \E k \in Contributing(m) : Bit(GetNamespace(k), p) = 1
          THEN 2 ^ p ELSE 0) + SumBits(m, p - 1)

\* the bitwise OR of the registered values of the contributing names: bit p
\* is set iff it is set in one of them
OrOfContributing(m) == SumBits(m, 30)

\* C12: GetNamespaceFlags returns the bitwise OR of the registered values of
\* the names that are enabled and registered; disabled and unregistered names
\* contribute 0; the result does not depend on the order of the visit.
C12_FlagsAreOrOfEnabled ==
  pc = "GetNamespaceFlagsDone" =>
     /\ flag = OrOfContributing(namespaces)
     /\ \A o \in Orders(DOMAIN namespaces) :
          GetNamespaceFlags(namespaces, o) = flag

\* {"NEWNET": true, "bogus": true, "NEWNS": true, "NEWPID": false}, with
\* the unregistered name visited first
C12_Witness ==
  /\ pc = "GetNamespaceFlagsDone"
  /\ DOMAIN namespaces = Names
  /\ namespaces["NEWNET"] /\ namespaces["NEWNS"] /\ namespaces["bogus"]
  /\ ~namespaces["NEWPID"]
  /\ order[1] = "bogus"
  /\ flag = 1073741824 + 131072

\* C13: SetupCgroups with no cgroup specification returns (nil, nil) and calls
\* no backend; with a specification it calls exactly one backend's Apply with
\* the child's pid, systemd's iff UseSystemd() is true and the filesystem
\* one otherwise.  A nil handle leads to no Cleanup and to no failure in Exec.
C13_OneBackend ==
  /\ Count("SetupCgroups") <= 1
  /\ Count("SetupCgroups") = 0 => IdxIn({"systemd.Apply", "fs.Apply"}) = {}
  /\ (Count("SetupCgroups") = 1 /\ ~container.Cgroups) =>
        /\ IdxIn({"systemd.Apply", "fs.Apply"}) = {}
        /\ cleaner = "nil"
        /\ failedStep # "SetupCgroups"
  /\ (Count("SetupCgroups") = 1 /\ container.Cgroups) =>
        /\ Cardinality(IdxIn({"systemd.Apply", "fs.Apply"})) = 1
        /\ Count("systemd.Apply") = (IF useSystemd THEN 1 ELSE 0)
        /\ Count("fs.Apply") = (IF useSystemd THEN 0 ELSE 1)
        /\ \A j \in IdxIn({"systemd.Apply", "fs.Apply"}) :
             /\ trace[j].pid = pid
             /\ j - 1 \in Idx("SetupCgroups")
  /\ cleaner # "handle" => Count("Cleanup") = 0
  /\ (pc = "done" /\ cleaner = "nil" /\ failedStep = "") => ~ret.err

C13_Witness ==
  /\ pc = "done"
  /\ container.Cgroups
  /\ useSystemd
  /\ Count("systemd.Apply") = 1
  /\ cleaner = "nil"
  /\ ~ret.err

\* TeardownNetworking has been called and has returned
TeardownReturned == Count("TeardownNetworking") = 1 /\ pc \in {"unwind", "done"}

\* C14: when TeardownNetworking returns, the supervisor is in the network
\* namespace it was in when TeardownNetworking was called (the host's).
C14_NamespaceRestored ==
  TeardownReturned => curNs = "host"

\* C15: TeardownNetworking makes its down / reassign-to-pid-1 / up calls
\* only while the supervisor is in the child's network namespace.
C15_OpsOnlyInChildNs ==
  \A k \in IdxIn(IfaceOps) : TdOp(k) => trace[k].ns = "child"

\* the strategy calls made so far, in order, each as <<op, entry>>
StrategyCalls ==
  LET sel == SelectSeq(trace, LAMBDA e : e.op \in {"GetStrategy", "Create"})
  IN  [k \in 1..Len(sel) |-> <<sel[k].op, sel[k].arg>>]

\* lookup and Create of entry 1, then of entry 2, ...
ExpectedStrategyCalls(n) ==
  [k \in 1..(2 * n) |->
     IF k % 2 = 1 THEN <<"GetStrategy", (k + 1) \div 2>>
                  ELSE <<"Create", k \div 2>>]

Last(S) == CHOOSE k \in S : \A j \in S : j <= k

\* the calls Exec makes to unwind after a failed InitializeNetworking
UnwindCalls == {"Kill", "Wait", "Cleanup", "DeletePid", "TermClose"}

\* C16: InitializeNetworking looks up and runs one Create per network entry
\* in list order, all before the first interface operation; a failed lookup
\* or Create is returned at once: no further Create, no interface operation
\* and no SendToChild follow.
C16_StrategiesFirstFailFast ==
  /\ IsPrefix(StrategyCalls, ExpectedStrategyCalls(container.Networks))
  /\ \A k \in DOMAIN trace :
       trace[k].op = "Create" => trace[k].pid = pid
  /\ \A k \in IdxIn(IfaceOps \cup {"SendToChild"}) :
       /\ StrategyCalls = ExpectedStrategyCalls(container.Networks)
       /\ \A j \in IdxIn({"GetStrategy", "Create"}) : j < k
       /\ failedStep \notin {"GetStrategy", "Create"}
  /\ failedStep \in {"GetStrategy", "Create"} =>
       LET f == Last(IdxIn({"GetStrategy", "Create"}))
       IN  /\ trace[f].op = failedStep
           /\ \A k \in DOMAIN trace : k > f => trace[k].op \in UnwindCalls
           /\ ret.err

C16_Witness ==
  /\ pc = "done"
  /\ failedStep = "Create"
  /\ Count("Create") = 2
  /\ container.Networks >= 2
  /\ container.NetworkInterfaces >= 1

\* the names of the calls made after the call at position f
CallsAfter(f) == [k \in 1..(Len(trace) - f) |-> trace[f + k].op]

\* C17: when InitializeNetworking fails, Exec kills the child, waits on it,
\* runs Cleanup (if the handle is non-nil), DeletePid, term.Close, in this
\* order, and then returns the error; it does not close the pipe, call the
\* callback or do the final wait.
C17_UnwindAfterNetworkFailure ==
  (pc = "done" /\ failedStep \in {"GetStrategy", "Create", "SendToChild"}) =>
     /\ CallsAfter(Last(Idx(failedStep))) =
          <<"Kill", "Wait">> \o
          (IF cleaner = "handle" THEN <<"Cleanup">> ELSE <<>>) \o
          <<"DeletePid", "TermClose">>
     /\ ret = [code |-> ErrCode, err |-> TRUE]
     /\ Count("Close") = 0
     /\ Count("startCallback") = 0
     /\ Count("TeardownNetworking") = 0
     /\ waitStatus = NoStatus
     /\ childState = "reaped"

C17_Witness ==
  /\ pc = "done"
  /\ failedStep = "SendToChild"
  /\ cleaner = "handle"
  /\ container.NetworkInterfaces >= 1

\* C18: a terminal acquired by Exec (SetMaster and/or Attach) is released by
\* term.Close exactly once before Exec returns, on every exit path.
C18_TerminalClosedOnce ==
  /\ Count("TermClose") <= 1
  /\ (pc = "done" /\ (Count("SetMaster") >= 1 \/ Count("Attach") >= 1)) =>
        Count("TermClose") = 1

\* C19: the payload is sent at most once, and exactly once on every launch
\* that reaches the release point, also when there are no networks and no
\* bindings; the send precedes the Close, and the pipe is never closed as
\* release signal without a preceding successful send.
C19_PayloadOnceBeforeClose ==
  /\ Count("SendToChild") <= 1
  /\ \A k \in Idx("Close") :
       /\ \E j \in Idx("SendToChild") : j < k
       /\ Count("SendToChild") = 1
       /\ failedStep # "SendToChild"

C19_Witness ==
  /\ Count("Close") = 1
  /\ Count("SendToChild") = 1
  /\ container.Networks = 0
  /\ container.NetworkInterfaces = 0

\* C20: TeardownNetworking, Cleanup and DeletePid each run at most once, and
\* only after a command.Wait() on the child has returned.
C20_CleanupAfterWait ==
  \A op \in {"TeardownNetworking", "Cleanup", "DeletePid"} :
    /\ Count(op) <= 1
    /\ \A k \in Idx(op) :
         /\ \E w \in Idx("Wait") : w < k
         /\ childState # "running" \/ waitStatus.kind = "error"

C20_Witness ==
  /\ pc = "done"
  /\ Count("Kill") = 1
  /\ Count("Cleanup") = 1
  /\ Count("DeletePid") = 1
====
